---- MODULE Spec2Model ----
(***************************************************************************)
(* Model of src/BudgetTracker.py: the Transaction dataclass with its       *)
(* __post_init__ validation and the BudgetTracker store (load, save,       *)
(* add_transaction, set_limit, summary, months).                          *)
(*                                                                         *)
(* Python strings that the code inspects character by character (dates     *)
(* and months: strptime, startswith, [:7], sorted) are sequences of        *)
(* one-character strings.  Python floats are records [nan, v]: an integer  *)
(* value v, or the IEEE not-a-number, for which every comparison is False. *)
(* File-system failures of save (open/write errors) are not modelled.      *)
(***************************************************************************)
EXTENDS Integers, Sequences

VARIABLES transactions, expense_limits, file, ret

vars == <<transactions, expense_limits, file, ret>>

\* ---------------------------------------------------------------- bounds
MaxTx == 2

\* ---------------------------------------------------------------- floats
F(n) == [nan |-> FALSE, v |-> n]
NaN == [nan |-> TRUE, v |-> 0]

\* a < b on Python floats: False as soon as one side is nan
flt(a, b) == ~a.nan /\ ~b.nan /\ a.v < b.v
\* a <= b on Python floats
fle(a, b) == ~a.nan /\ ~b.nan /\ a.v <= b.v
\* a + b and a - b on Python floats: nan propagates
fadd(a, b) == IF a.nan \/ b.nan THEN NaN ELSE F(a.v + b.v)
fsub(a, b) == IF a.nan \/ b.nan THEN NaN ELSE F(a.v - b.v)

\* ---------------------------------------------------------------- strings
Digits == {"0", "1", "2", "3", "4", "5", "6", "7", "8", "9"}
Digits19 == Digits \ {"0"}

\* code point of the characters the inputs are written with
Ord(c) ==
  CASE c = " " -> 32 [] c = "-" -> 45 [] c = "/" -> 47
    [] c = "0" -> 48 [] c = "1" -> 49 [] c = "2" -> 50 [] c = "3" -> 51
    [] c = "4" -> 52 [] c = "5" -> 53 [] c = "6" -> 54 [] c = "7" -> 55
    [] c = "8" -> 56 [] c = "9" -> 57

\* s[i-1] of Python, "" past either end
At(s, i) == IF i \in 1..Len(s) THEN s[i] ELSE ""

\* int() of the characters s[a..b]; int() ignores surrounding blanks
RECURSIVE Num(_, _, _)
Num(s, a, b) ==
  IF b < a THEN 0
  ELSE IF s[b] = " " THEN Num(s, a, b - 1)
  ELSE Num(s, a, b - 1) * 10 + (Ord(s[b]) - 48)

\* str.startswith
startswith(s, p) == Len(p) <= Len(s) /\ SubSeq(s, 1, Len(p)) = p

\* s[:7]
Slice7(s) == SubSeq(s, 1, IF Len(s) < 7 THEN Len(s) ELSE 7)

\* a < b on Python str: by code point, a proper prefix is smaller
RECURSIVE StrLess(_, _)
StrLess(a, b) ==
  IF b = <<>> THEN FALSE
  ELSE IF a = <<>> THEN TRUE
  ELSE IF Head(a) = Head(b) THEN StrLess(Tail(a), Tail(b))
  ELSE Ord(Head(a)) < Ord(Head(b))

\* sorted() of a set of str
RECURSIVE sorted(_)
sorted(S) ==
  IF S = {} THEN <<>>
  ELSE LET m == CHOOSE x \in S : \A y \in S \ {x} : StrLess(x, y)
       IN <<m>> \o sorted(S \ {m})

\* ---------------------------------------------------------------- strptime
\* Each directive's regular expression of _strptime, as the positions after
\* the alternatives that match at position i, in the order the regex engine
\* tries them.
NonZero(x) == x # 0

\* %Y : \d\d\d\d
re_Y(s, i) ==
  IF \A k \in 0..3 : At(s, i + k) \in Digits THEN <<i + 4>> ELSE <<>>

\* %m : 1[0-2]|0[1-9]|[1-9]
re_m(s, i) ==
  SelectSeq(<< IF At(s, i) = "1" /\ At(s, i + 1) \in {"0", "1", "2"} THEN i + 2 ELSE 0,
               IF At(s, i) = "0" /\ At(s, i + 1) \in Digits19 THEN i + 2 ELSE 0,
               IF At(s, i) \in Digits19 THEN i + 1 ELSE 0 >>, NonZero)

\* %d : 3[0-1]|[1-2]\d|0[1-9]|[1-9]| [1-9]
re_d(s, i) ==
  SelectSeq(<< IF At(s, i) = "3" /\ At(s, i + 1) \in {"0", "1"} THEN i + 2 ELSE 0,
               IF At(s, i) \in {"1", "2"} /\ At(s, i + 1) \in Digits THEN i + 2 ELSE 0,
               IF At(s, i) = "0" /\ At(s, i + 1) \in Digits19 THEN i + 2 ELSE 0,
               IF At(s, i) \in Digits19 THEN i + 1 ELSE 0,
               IF At(s, i) = " " /\ At(s, i + 1) \in Digits19 THEN i + 2 ELSE 0 >>, NonZero)

NoMatch == [end |-> 0, Y |-> 0, m |-> 0, d |-> 0]

\* format_regex.match(s) for "%Y-%m": first match of \d\d\d\d-(m), not anchored
\* at the end of s
match_Ym(s) ==
  IF re_Y(s, 1) = <<>> \/ At(s, 5) # "-" \/ re_m(s, 6) = <<>> THEN NoMatch
  ELSE LET e == Head(re_m(s, 6))
       IN [end |-> e, Y |-> Num(s, 1, 4), m |-> Num(s, 6, e - 1), d |-> 1]

\* format_regex.match(s) for "%Y-%m-%d": the engine backtracks over the
\* alternatives of the month until "-" and a day follow
match_Ymd(s) ==
  IF re_Y(s, 1) = <<>> \/ At(s, 5) # "-" THEN NoMatch
  ELSE LET Cont(p) == At(s, p) = "-" /\ re_d(s, p + 1) # <<>>
           ok == SelectSeq(re_m(s, 6), Cont)
       IN IF ok = <<>> THEN NoMatch
          ELSE LET p == Head(ok)
                   e == Head(re_d(s, p + 1))
               IN [end |-> e, Y |-> Num(s, 1, 4), m |-> Num(s, 6, p - 1),
                   d |-> Num(s, p + 1, e - 1)]

IsLeap(y) == (y % 4 = 0 /\ y % 100 # 0) \/ y % 400 = 0

DaysInMonth(y, m) ==
  IF m = 2 THEN (IF IsLeap(y) THEN 29 ELSE 28)
  ELSE IF m \in {4, 6, 9, 11} THEN 30 ELSE 31

\* TRUE iff datetime.strptime returns: the regex matched, no unconverted data
\* remains and the fields make a date (MINYEAR is 1)
strptime_ok(mt, s) ==
  /\ mt # NoMatch
  /\ mt.end = Len(s) + 1
  /\ mt.Y >= 1
  /\ mt.d <= DaysInMonth(mt.Y, mt.m)

\* TRUE iff datetime.strptime(s, "%Y-%m-%d") returns (FALSE: ValueError)
strptime_Ymd(s) == strptime_ok(match_Ymd(s), s)

\* TRUE iff datetime.strptime(s, "%Y-%m") returns (FALSE: ValueError)
strptime_Ym(s) == strptime_ok(match_Ym(s), s)

\* ---------------------------------------------------------------- values
\* None of Python
None == [none |-> TRUE]

\* the month argument left out (month=None)
NoMonth == <<"None">>

\* {} of Python
EmptyDict == [k \in {} |-> NaN]

\* d[k] = v
DictSet(d, k, v) == [x \in DOMAIN d \cup {k} |-> IF x = k THEN v ELSE d[x]]

\* d.get(k)
DictGet(d, k) == IF k \in DOMAIN d THEN d[k] ELSE None

\* ---------------------------------------------------------------- Transaction
TransactionFields == {"type", "amount", "date", "description"}

\* Transaction.__post_init__: TRUE iff it raises (ValueError)
post_init_raises(t) ==
  \/ t.type \notin {"income", "expense"}
  \/ flt(t.amount, F(0))
  \/ ~strptime_Ymd(t.date)

\* Transaction(ttype, amount, date, desc): the dataclass instance
Transaction(ttype, amount, date, desc) ==
  [type |-> ttype, amount |-> amount, date |-> date, description |-> desc]

\* asdict with the description written under the key "desc"
asdict_desc_key(t) ==
  [type |-> t.type, amount |-> t.amount, date |-> t.date, desc |-> t.description]

\* dataclasses.asdict(t)
asdict(t) ==
  [type |-> t.type, amount |-> t.amount, date |-> t.date,
   description |-> t.description]

\* Transaction(**d): TRUE iff it raises, TypeError when the keys of d are not
\* exactly the four fields, else as __post_init__
from_dict_raises(d) ==
  IF DOMAIN d # TransactionFields THEN TRUE
  ELSE post_init_raises(Transaction(d.type, d.amount, d.date, d.description))

\* ---------------------------------------------------------------- the file
\* The document at data_file: absent, text that json.load rejects, a JSON
\* value that is no object, or a JSON object.  json.dump followed by
\* json.load gives back the str and float values it was given (nan included,
\* written as NaN), so the object is kept as parsed.
Absent == [kind |-> "absent"]
Unparsable == [kind |-> "unparsable"]
NotObject == [kind |-> "array"]
Object(data) == [kind |-> "object", data |-> data]

\* [asdict(t) for t in txs]
RECURSIVE dump_transactions(_)
dump_transactions(txs) ==
  IF txs = <<>> THEN <<>>
  ELSE <<asdict(Head(txs))>> \o dump_transactions(Tail(txs))

\* [Transaction(**t) for t in ds], for ds whose entries all construct
RECURSIVE build_transactions(_)
build_transactions(ds) ==
  IF ds = <<>> THEN <<>>
  ELSE LET d == Head(ds)
       IN <<Transaction(d.type, d.amount, d.date, d.description)>>
            \o build_transactions(Tail(ds))

\* BudgetTracker.save: the document written
save(txs, limits) ==
  Object([transactions |-> dump_transactions(txs), expense_limits |-> limits])

\* load that keeps the entries that construct and drops the others
load_skipping_invalid(f) ==
  IF f.kind # "object" THEN [transactions |-> <<>>, expense_limits |-> EmptyDict]
  ELSE LET data == f.data
           ds == IF "transactions" \in DOMAIN data THEN data.transactions ELSE <<>>
           ls == IF "expense_limits" \in DOMAIN data THEN data.expense_limits
                 ELSE EmptyDict
           Constructs(d) == ~from_dict_raises(d)
       IN [transactions |-> build_transactions(SelectSeq(ds, Constructs)),
           expense_limits |-> ls]

\* BudgetTracker.__init__ followed by load: the store constructed on document f
load(f) ==
  LET empty == [transactions |-> <<>>, expense_limits |-> EmptyDict]
  IN IF f.kind = "absent" THEN empty
     ELSE IF f.kind # "object" THEN empty
     ELSE LET data == f.data
              ds == IF "transactions" \in DOMAIN data THEN data.transactions ELSE <<>>
              ls == IF "expense_limits" \in DOMAIN data THEN data.expense_limits
                    ELSE EmptyDict
          IN IF \E i \in 1..Len(ds) : from_dict_raises(ds[i]) THEN empty
             ELSE [transactions |-> build_transactions(ds), expense_limits |-> ls]

\* ---------------------------------------------------------------- BudgetTracker
\* A store st is [transactions, expense_limits, file]: the two attributes of
\* the BudgetTracker and the document at its data_file.  Each operation gives
\* the store after the call and whether the call raised.

\* add_transaction that inserts the new transaction at the front
add_transaction_at_front(st, ttype, amount, date, desc) ==
  LET t == Transaction(ttype, amount, date, desc)
  IN IF post_init_raises(t) THEN [st |-> st, raised |-> TRUE]
     ELSE LET txs == <<t>> \o st.transactions
          IN [st |-> [transactions |-> txs,
                      expense_limits |-> st.expense_limits,
                      file |-> save(txs, st.expense_limits)],
              raised |-> FALSE]

\* BudgetTracker.add_transaction: the Transaction is constructed (and may
\* raise) before append and save run
add_transaction(st, ttype, amount, date, desc) ==
  LET t == Transaction(ttype, amount, date, desc)
  IN IF post_init_raises(t) THEN [st |-> st, raised |-> TRUE]
     ELSE LET txs == Append(st.transactions, t)
          IN [st |-> [transactions |-> txs,
                      expense_limits |-> st.expense_limits,
                      file |-> save(txs, st.expense_limits)],
              raised |-> FALSE]

\* set_limit that does not save
set_limit_without_save(st, month, limit) ==
  IF ~strptime_Ym(month) THEN [st |-> st, raised |-> TRUE]
  ELSE [st |-> [transactions |-> st.transactions,
                expense_limits |-> DictSet(st.expense_limits, month, limit),
                file |-> st.file],
        raised |-> FALSE]

\* BudgetTracker.set_limit: only the month is checked, by strptime
set_limit(st, month, limit) ==
  IF ~strptime_Ym(month) THEN [st |-> st, raised |-> TRUE]
  ELSE LET ls == DictSet(st.expense_limits, month, limit)
       IN [st |-> [transactions |-> st.transactions,
                   expense_limits |-> ls,
                   file |-> save(st.transactions, ls)],
           raised |-> FALSE]

\* sum(t.amount for t in txs if t.type == ttype and t.date.startswith(month)):
\* sum starts from 0 and adds from left to right
RECURSIVE sum_amounts(_, _, _)
sum_amounts(txs, ttype, month) ==
  IF txs = <<>> THEN F(0)
  ELSE LET t == txs[Len(txs)]
           rest == sum_amounts(SubSeq(txs, 1, Len(txs) - 1), ttype, month)
       IN IF t.type = ttype /\ startswith(t.date, month)
          THEN fadd(rest, t.amount) ELSE rest

\* the status expression of summary
status_of(exp, limit) ==
  IF limit = None THEN "No limit set"
  ELSE IF fle(exp, limit) THEN "Within limit" ELSE "Limit exceeded"

\* BudgetTracker.summary; now is the "%Y-%m" of the clock, used when month is
\* left out
summary(st, month, now) ==
  LET mth == IF month = NoMonth THEN now ELSE month
  IN IF ~strptime_Ym(mth) THEN [raised |-> TRUE, value |-> None]
     ELSE LET inc == sum_amounts(st.transactions, "income", mth)
              exp == sum_amounts(st.transactions, "expense", mth)
              limit == DictGet(st.expense_limits, mth)
          IN [raised |-> FALSE,
              value |-> [month |-> mth, income |-> inc, expense |-> exp,
                         balance |-> fsub(inc, exp), limit |-> limit,
                         status |-> status_of(exp, limit)]]

\* BudgetTracker.months
months(st) ==
  sorted({Slice7(st.transactions[i].date) : i \in 1..Len(st.transactions)})

\* ---------------------------------------------------------------- inputs
D_2024_01_05 == <<"2", "0", "2", "4", "-", "0", "1", "-", "0", "5">>
D_2024_10_05 == <<"2", "0", "2", "4", "-", "1", "0", "-", "0", "5">>
D_2024_1_5 == <<"2", "0", "2", "4", "-", "1", "-", "5">>
D_2024_02_30 == <<"2", "0", "2", "4", "-", "0", "2", "-", "3", "0">>
D_2024_13_01 == <<"2", "0", "2", "4", "-", "1", "3", "-", "0", "1">>

M_2024_01 == <<"2", "0", "2", "4", "-", "0", "1">>
M_2024_1 == <<"2", "0", "2", "4", "-", "1">>
M_2024_13 == <<"2", "0", "2", "4", "-", "1", "3">>

TypeInputs == {"income", "expense", "transfer"}
AmountInputs == {F(-1), F(1), NaN}
DateInputs == {D_2024_01_05, D_2024_1_5, D_2024_13_01}
DescInputs == {"rent"}
\* months given to set_limit, and months given to summary
LimitMonthInputs == {M_2024_01, M_2024_13}
MonthInputs == {M_2024_01, M_2024_1, M_2024_13}
LimitInputs == {F(-1), F(1)}
\* what datetime.now().strftime("%Y-%m") may give
NowInputs == {M_2024_01}

\* documents found at data_file when the program starts
DocTx(ttype, amount, date) ==
  [type |-> ttype, amount |-> amount, date |-> date, description |-> "rent"]

DocInputs ==
  { Absent, Unparsable, NotObject,
    Object(EmptyDict),
    Object([transactions |-> <<DocTx("expense", F(1), D_2024_01_05)>>]),
    Object([transactions |-> <<DocTx("income", F(1), D_2024_01_05)>>,
            expense_limits |-> DictSet(EmptyDict, M_2024_01, F(1))]),
    Object([transactions |-> <<DocTx("income", F(1), D_2024_10_05),
                               DocTx("transfer", F(1), D_2024_01_05)>>,
            expense_limits |-> DictSet(EmptyDict, M_2024_01, F(1))]),
    Object([transactions |-> <<DocTx("income", F(1), D_2024_10_05),
                               DocTx("expense", F(1), D_2024_02_30)>>,
            expense_limits |-> DictSet(EmptyDict, M_2024_1, F(1))]),
    Object([transactions |-> <<DocTx("expense", F(-1), D_2024_01_05)>>,
            expense_limits |-> DictSet(EmptyDict, M_2024_01, F(1))]),
    Object([transactions |-> <<[type |-> "income", amount |-> F(1),
                                date |-> D_2024_01_05]>>,
            expense_limits |-> DictSet(EmptyDict, M_2024_01, F(1))]),
    Object([transactions |-> <<DocTx("expense", NaN, D_2024_01_05)>>,
            expense_limits |-> DictSet(EmptyDict, M_2024_01, F(1))]) }

\* ---------------------------------------------------------------- the machine
store == [transactions |-> transactions, expense_limits |-> expense_limits,
          file |-> file]

\* what the last call was given and gave back; value is a record: None, the
\* dict of summary, or [months |-> the list of months]
Returned(op, args, raised, value) ==
  [op |-> op, args |-> args, raised |-> raised, value |-> value]

\* the program starts on some document: BudgetTracker() in main
Init ==
  \E f \in DocInputs :
    /\ file = f
    /\ transactions = load(f).transactions
    /\ expense_limits = load(f).expense_limits
    /\ ret = Returned("__init__", <<>>, FALSE, None)

\* the program is started again on the document it left: BudgetTracker()
Construct ==
  /\ transactions' = load(file).transactions
  /\ expense_limits' = load(file).expense_limits
  /\ file' = file
  /\ ret' = Returned("__init__", <<>>, FALSE, None)

AddTransaction ==
  \E ttype \in TypeInputs, amount \in AmountInputs, date \in DateInputs,
     desc \in DescInputs :
    LET r == add_transaction(store, ttype, amount, date, desc)
    IN \* the sequence is kept within MaxTx; rejected calls are always taken
       /\ r.raised \/ Len(transactions) < MaxTx
       /\ transactions' = r.st.transactions
       /\ expense_limits' = r.st.expense_limits
       /\ file' = r.st.file
       /\ ret' = Returned("add_transaction", <<ttype, amount, date, desc>>,
                          r.raised, None)

SetLimit ==
  \E month \in LimitMonthInputs, limit \in LimitInputs :
    LET r == set_limit(store, month, limit)
    IN /\ transactions' = r.st.transactions
       /\ expense_limits' = r.st.expense_limits
       /\ file' = r.st.file
       /\ ret' = Returned("set_limit", <<month, limit>>, r.raised, None)

Summary ==
  \E month \in MonthInputs \cup {NoMonth}, now \in NowInputs :
    LET r == summary(store, month, now)
    IN /\ ret' = Returned("summary", <<month>>, r.raised, r.value)
       /\ UNCHANGED <<transactions, expense_limits, file>>

Months ==
  /\ ret' = Returned("months", <<>>, FALSE, [months |-> months(store)])
  /\ UNCHANGED <<transactions, expense_limits, file>>

Next == Construct \/ AddTransaction \/ SetLimit \/ Summary \/ Months

Spec == Init /\ [][Next]_vars

\* ---------------------------------------------------------------- claims
\* What the claims speak of: the strict forms YYYY-MM-DD and YYYY-MM, the
\* year-month a date or a month key denotes, and the sums by year-month.

IsPrefix(a, b) == Len(a) <= Len(b) /\ SubSeq(b, 1, Len(a)) = a

\* s is YYYY-MM: four digits, "-", a two-digit month 01..12
StrictYm(s) ==
  /\ Len(s) = 7
  /\ \A i \in {1, 2, 3, 4, 6, 7} : s[i] \in Digits
  /\ s[5] = "-"
  /\ Num(s, 1, 4) >= 1
  /\ Num(s, 6, 7) \in 1..12

\* s is YYYY-MM-DD: YYYY-MM, "-", a two-digit day of that month
StrictYmd(s) ==
  /\ Len(s) = 10
  /\ StrictYm(SubSeq(s, 1, 7))
  /\ s[8] = "-"
  /\ s[9] \in Digits /\ s[10] \in Digits
  /\ Num(s, 9, 10) \in 1..DaysInMonth(Num(s, 1, 4), Num(s, 6, 7))

\* the year-month of a stored date and of an accepted month, as <<year, month>>
YearMonthOfDate(date) == <<match_Ymd(date).Y, match_Ymd(date).m>>
YearMonthOfKey(month) == <<match_Ym(month).Y, match_Ym(month).m>>

\* ym1 is chronologically before ym2
Earlier(ym1, ym2) == ym1[1] < ym2[1] \/ (ym1[1] = ym2[1] /\ ym1[2] < ym2[2])

\* the sum of the amounts of the transactions of kind ttype dated in ym
RECURSIVE SumOfMonth(_, _, _)
SumOfMonth(txs, ttype, ym) ==
  IF txs = <<>> THEN F(0)
  ELSE LET t == txs[Len(txs)]
           rest == SumOfMonth(SubSeq(txs, 1, Len(txs) - 1), ttype, ym)
       IN IF t.type = ttype /\ YearMonthOfDate(t.date) = ym
          THEN fadd(rest, t.amount) ELSE rest

IsAdd(r) == r.op = "add_transaction"
IsSetLimit(r) == r.op = "set_limit"
IsSummary(r) == r.op = "summary"
\* the document is what save writes for the store in memory
InSync == file = save(transactions, expense_limits)

\* the entries and the limits of the document, empty when it has none
DocTransactions ==
  IF file.kind = "object" /\ "transactions" \in DOMAIN file.data
  THEN file.data.transactions ELSE <<>>

DocLimits ==
  IF file.kind = "object" /\ "expense_limits" \in DOMAIN file.data
  THEN file.data.expense_limits ELSE EmptyDict

\* C1: add_transaction with a kind other than income/expense, an amount < 0
\* or a date that is not a YYYY-MM-DD date raises and leaves the transaction
\* sequence and the document as they were.
C1_InvalidAddRaisesUnchanged ==
  [][ (IsAdd(ret') /\ ( \/ ret'.args[1] \notin {"income", "expense"}
                        \/ flt(ret'.args[2], F(0))
                        \/ ~StrictYmd(ret'.args[3]) ))
        => (ret'.raised /\ transactions' = transactions /\ file' = file) ]_vars

\* C2: set_limit with a month that is not YYYY-MM or with a negative limit
\* raises and leaves the month->limit mapping as it was.
C2_InvalidLimitRaisesUnchanged ==
  [][ (IsSetLimit(ret') /\ ( \/ ~StrictYm(ret'.args[1])
                             \/ flt(ret'.args[2], F(0)) ))
        => (ret'.raised /\ expense_limits' = expense_limits) ]_vars

\* C3: for every month summary accepts, income and expense are the sums of
\* the amounts of exactly the income and the expense transactions dated in
\* that year-month, and balance = income - expense (all 0 when no transaction
\* is dated in it).
C3_SummarySumsTheMonth ==
  (IsSummary(ret) /\ ~ret.raised) =>
    LET ym == YearMonthOfKey(ret.value.month)
    IN /\ ret.value.income = SumOfMonth(transactions, "income", ym)
       /\ ret.value.expense = SumOfMonth(transactions, "expense", ym)
       /\ ret.value.balance = fsub(ret.value.income, ret.value.expense)

\* C4: summary returns the stored limit of the month (None when there is
\* none); the status is "No limit set" exactly when no limit is stored,
\* "Within limit" exactly when one is stored and expense <= limit, and
\* "Limit exceeded" exactly when one is stored and expense > limit.
C4_StatusFollowsLimit ==
  (IsSummary(ret) /\ ~ret.raised) =>
    LET m == ret.value.month
        has == m \in DOMAIN expense_limits
        exp == ret.value.expense
    IN /\ ret.value.limit = (IF has THEN expense_limits[m] ELSE None)
       /\ (ret.value.status = "No limit set") <=> ~has
       /\ (ret.value.status = "Within limit")
            <=> (has /\ fle(exp, expense_limits[m]))
       /\ (ret.value.status = "Limit exceeded")
            <=> (has /\ flt(expense_limits[m], exp))

\* C5: add_transaction with a valid kind, amount and date appends exactly one
\* transaction holding the four values at the end, and over every step the
\* earlier sequence is a prefix of the later one.
C5_AppendOnly ==
  [][ /\ IsPrefix(transactions, transactions')
      /\ (IsAdd(ret') /\ ret'.args[1] \in {"income", "expense"}
            /\ fle(F(0), ret'.args[2]) /\ StrictYmd(ret'.args[3]))
           => /\ ~ret'.raised
              /\ transactions' =
                   Append(transactions,
                          [type |-> ret'.args[1], amount |-> ret'.args[2],
                           date |-> ret'.args[3], description |-> ret'.args[4]])
    ]_vars

\* a valid add onto a store that already held a transaction
C5_Witness ==
  /\ IsAdd(ret) /\ ~ret.raised
  /\ Len(transactions) >= 2
  /\ StrictYmd(ret.args[3]) /\ fle(F(0), ret.args[2])

\* C6: when add_transaction or set_limit has completed, the document holds
\* exactly the in-memory transactions and limits, and from then on the two
\* never differ between operations.
C6_PersistedAfterMutation ==
  /\ []((IsAdd(ret) \/ IsSetLimit(ret)) /\ ~ret.raised => InSync)
  /\ [][InSync => InSync']_vars

\* a completed set_limit on a store with transactions
C6_Witness ==
  /\ IsSetLimit(ret) /\ ~ret.raised
  /\ transactions # <<>>
  /\ InSync

\* C7: saving the store and constructing a new store on the saved document
\* gives the same transactions in the same order and the same limits.
C7_RoundTrip ==
  load(save(transactions, expense_limits)) =
    [transactions |-> transactions, expense_limits |-> expense_limits]

\* a store constructed on a document that save wrote, with both parts filled
C7_Witness ==
  /\ ret.op = "__init__"
  /\ InSync
  /\ Len(transactions) >= 2
  /\ DOMAIN expense_limits # {}

\* C8: a store constructed on an absent or unparsable document, or on one with
\* an entry that fails transaction validation, is empty and no error is
\* raised; a constructed store holds either nothing or all of the document's
\* transactions together with the document's limits.
C8_LoadAllOrNothing ==
  ret.op = "__init__" =>
    /\ ~ret.raised
    /\ ( \/ file.kind # "object"
         \/ \E i \in 1..Len(DocTransactions) : from_dict_raises(DocTransactions[i]) )
         => (transactions = <<>> /\ expense_limits = EmptyDict)
    /\ \/ transactions = <<>> /\ expense_limits = EmptyDict
       \/ /\ Len(transactions) = Len(DocTransactions)
          /\ \A i \in 1..Len(transactions) : asdict(transactions[i]) = DocTransactions[i]
          /\ expense_limits = DocLimits

\* a document with limits, with entries that construct and entries that do not
C8_Witness ==
  /\ ret.op = "__init__"
  /\ \E i \in 1..Len(DocTransactions) : from_dict_raises(DocTransactions[i])
  /\ \E i \in 1..Len(DocTransactions) : ~from_dict_raises(DocTransactions[i])
  /\ DocLimits # EmptyDict
  /\ transactions = <<>> /\ expense_limits = EmptyDict

\* C9: months() returns YYYY-MM year-months, each year-month of a stored
\* transaction exactly once and no other, in ascending lexicographic order
\* that is also chronological order, the empty sequence for an empty store,
\* and changes neither the transactions nor the limits.
C9_MonthsDistinctSorted ==
  [][ ret'.op = "months" =>
        LET v == ret'.value.months
        IN /\ \A i \in 1..Len(v) : StrictYm(v[i])
           /\ \A i, j \in 1..Len(v) :
                i < j => /\ StrLess(v[i], v[j])
                         /\ Earlier(YearMonthOfKey(v[i]), YearMonthOfKey(v[j]))
           /\ {YearMonthOfKey(v[i]) : i \in 1..Len(v)} =
                {YearMonthOfDate(transactions[i].date) : i \in 1..Len(transactions)}
           /\ transactions = <<>> => v = <<>>
           /\ transactions' = transactions
           /\ expense_limits' = expense_limits ]_vars

\* C10: every stored transaction has kind income or expense, amount >= 0 and
\* a date that is a calendar date.
C10_StoredTransactionsValid ==
  \A i \in 1..Len(transactions) :
    /\ transactions[i].type \in {"income", "expense"}
    /\ fle(F(0), transactions[i].amount)
    /\ strptime_Ymd(transactions[i].date)

====
